---- MODULE Spec2Model ----
(***************************************************************************)
(* Model of the EEG viewer page, app/pages/eeg_plotly_viewer.py: one run   *)
(* of the page script per browser session ("request"), over the shared     *)
(* data directory data/eeg_csv, the remote dataset store and the brain     *)
(* image asset.                                                            *)
(*                                                                         *)
(* Strings are sequences of tokens (<<"sub-", "01", "_", "ses-1">> is      *)
(* "sub-01_ses-1"), so that split, replace, endswith and concatenation are *)
(* computed as Python computes them.  A CSV file's bytes are a sequence of *)
(* lines, each a sequence of fields.                                       *)
(***************************************************************************)
EXTENDS Integers, Sequences, FiniteSets, TLC

\* ------------------------------------------------------------------ bounds
\* Data rows of a recording in the remote store.
NumRows == 2
\* Reruns of the page script, over all sessions (Streamlit reruns it on every
\* interaction).
MaxReruns == 1
\* Electrodes picked at once, short of picking all of them.
MaxPicked == 2

Sessions == {1, 2}

\* ------------------------------------------------------- string helpers
\* str.endswith(suffix), at token granularity
EndsWith(f, suffix) == Len(f) > 0 /\ f[Len(f)] = suffix

\* str.split(sep)[0]: the part before the first separator (all of it when none)
SplitFirst(f, sep) ==
    IF \E i \in 1..Len(f) : f[i] = sep
    THEN LET i == CHOOSE i \in 1..Len(f) :
                      f[i] = sep /\ \A j \in 1..(i - 1) : f[j] # sep
         IN  SubSeq(f, 1, i - 1)
    ELSE f

\* str.replace(old, ""): every occurrence of the token removed
ReplaceEmpty(f, old) == LET Keep(t) == t # old IN SelectSeq(f, Keep)

\* ------------------------------------------------ static tables of the page
HF_REPO == <<"aparker03/eeg-csv">>
DATA_DIR == <<"data/eeg_csv">>
time_col == "Time"

\* lines 10-38
CHANNEL_INFO ==
    [ch \in {"Fp1", "Fp2", "AF3", "AF4", "AF7", "AF8", "Fz", "F1", "F2",
             "F3", "F4", "FC1", "FC2", "Cz", "C3", "C4", "CP1", "CP2",
             "Pz", "P3", "P4", "O1", "O2", "Oz", "T7", "T8", "POz"} |->
        CASE ch = "Fp1" -> "Frontopolar left (near forehead)"
          [] ch = "Fp2" -> "Frontopolar right (near forehead)"
          [] ch = "AF3" -> "Anterior frontal left"
          [] ch = "AF4" -> "Anterior frontal right"
          [] ch = "AF7" -> "Anterior frontal left (lateral)"
          [] ch = "AF8" -> "Anterior frontal right (lateral)"
          [] ch = "Fz" -> "Frontal midline"
          [] ch = "F1" -> "Frontal left mid"
          [] ch = "F2" -> "Frontal right mid"
          [] ch = "F3" -> "Frontal left"
          [] ch = "F4" -> "Frontal right"
          [] ch = "FC1" -> "Frontal-central left"
          [] ch = "FC2" -> "Frontal-central right"
          [] ch = "Cz" -> "Central midline (top of head)"
          [] ch = "C3" -> "Central left"
          [] ch = "C4" -> "Central right"
          [] ch = "CP1" -> "Central-parietal left"
          [] ch = "CP2" -> "Central-parietal right"
          [] ch = "Pz" -> "Parietal midline"
          [] ch = "P3" -> "Parietal left"
          [] ch = "P4" -> "Parietal right"
          [] ch = "O1" -> "Occipital left (visual area)"
          [] ch = "O2" -> "Occipital right (visual area)"
          [] ch = "Oz" -> "Occipital midline"
          [] ch = "T7" -> "Temporal left"
          [] ch = "T8" -> "Temporal right"
          [] ch = "POz" -> "Parieto-occipital midline"]

Conditions == {"Normal Sleep (NS)", "Sleep Deprived (SD)"}
Tasks == {"Eyes Open", "Eyes Closed"}

\* The session table with its two codes exchanged.
cond_mapSwapped ==
    [c \in Conditions |-> IF c = "Normal Sleep (NS)" THEN "ses-2" ELSE "ses-1"]
\* lines 61-62
cond_map ==
    [c \in Conditions |-> IF c = "Normal Sleep (NS)" THEN "ses-1" ELSE "ses-2"]
task_map ==
    [t \in Tasks |-> IF t = "Eyes Open" THEN "eyesopen" ELSE "eyesclosed"]

\* lines 64-67: subj_str, session_str, task_str, filename
MakeFilename(subj, cond, task) ==
    (<<"sub-">> \o subj) \o <<"_", cond_map[cond], "_", task_map[task], ".csv">>

\* line 68: os.path.join(DATA_DIR, filename)
PathJoin(dir, filename) == dir \o <<"/">> \o filename

\* line 53: the subject ids the picker offers, from the listed CSV files
SubjectIds(csv) == {ReplaceEmpty(SplitFirst(f, "_"), "sub-") : f \in csv}

\* ------------------------------------------------------------ file system
\* File names of data/eeg_csv the model follows: the recordings of three
\* subject tokens, a CSV that is no recording, and a file that is no CSV.
SubjectTokens == {<<"01">>, <<"02">>, <<"readme", ".csv">>}
ReadmeCsv == <<"readme", ".csv">>
NotesTxt == <<"notes", ".txt">>
FileNames ==
    {MakeFilename(sj, c, t) : sj \in SubjectTokens, c \in Conditions, t \in Tasks}
        \cup {ReadmeCsv, NotesTxt}

NoFile == [exists |-> FALSE, bytes |-> <<>>]
FileOf(b) == [exists |-> TRUE, bytes |-> b]

\* A region of a file its writer has not reached yet (a hole of NUL bytes).
Hole == <<"\\0">>

\* The remote store (HF_REPO, repo_type "dataset") holds the recordings of
\* subject 01; every other object name is not found there.
RemoteNames == {MakeFilename(<<"01">>, c, t) : c \in Conditions, t \in Tasks}

\* The bytes of a recording: the header line and NumRows data lines.  The cell
\* values differ from file to file and from column to column.
Header == <<"Time", "Fp1", "Fz", "X1">>
FileSeed(f) ==
    (IF \E i \in 1..Len(f) : f[i] = "ses-2" THEN 200 ELSE 100)
        + (IF \E i \in 1..Len(f) : f[i] = "eyesclosed" THEN 50 ELSE 0)
DataLine(f, r) == <<r, FileSeed(f) + 10 + r, FileSeed(f) + 20 + r, FileSeed(f) + 30 + r>>
RemoteBytes(f) == <<Header>> \o [r \in 1..NumRows |-> DataLine(f, r)]

\* Local files that did not come from the store: an older copy of a recording
\* (the store's object has drifted since), a table without a Time column and
\* an empty file.
StaleBytes(f) == <<Header>> \o [r \in 1..NumRows |-> <<r, 1, 2, 3>>]
NoTimeBytes == <<<<"Fp1", "Fz">>, <<7, 8>>>>
EmptyBytes == <<>>

F01NsOpen == MakeFilename(<<"01">>, "Normal Sleep (NS)", "Eyes Open")
F02SdClosed == MakeFilename(<<"02">>, "Sleep Deprived (SD)", "Eyes Closed")
F02NsOpen == MakeFilename(<<"02">>, "Normal Sleep (NS)", "Eyes Open")

DirWith(files) == [f \in FileNames |-> IF f \in DOMAIN files THEN FileOf(files[f]) ELSE NoFile]

\* The contents data/eeg_csv starts with.
InitialDirs ==
    { DirWith(<<>>),
      DirWith(NotesTxt :> <<<<"todo">>>>),
      DirWith(F01NsOpen :> RemoteBytes(F01NsOpen)),
      DirWith(F01NsOpen :> StaleBytes(F01NsOpen) @@ NotesTxt :> <<<<"todo">>>>),
      DirWith(F02SdClosed :> NoTimeBytes @@ F02NsOpen :> EmptyBytes),
      DirWith(ReadmeCsv :> RemoteBytes(F01NsOpen)) }

\* line 68 / line 79: a path of the data directory, and the file name it names
InDataDir(path) == Len(path) > 2 /\ SubSeq(path, 1, 2) = DATA_DIR \o <<"/">>
NameOf(path) == SubSeq(path, 3, Len(path))

\* ------------------------------------------------------------- pd.read_csv
NoDf == [loaded |-> FALSE, columns |-> <<>>, rows |-> <<>>]

\* line 87: the outcome of pd.read_csv on a file: the table (first line the
\* header, the other lines the rows in file order), or the exception raised.
ReadCsv(file) ==
    IF ~file.exists THEN [err |-> "FileNotFoundError", df |-> NoDf]
    ELSE IF file.bytes = <<>> THEN [err |-> "EmptyDataError", df |-> NoDf]
    ELSE IF \E i \in 1..Len(file.bytes) : file.bytes[i] = Hole
         THEN [err |-> "ParserError", df |-> NoDf]      \* NUL bytes: no table of the file
    ELSE [err |-> "none",
          df |-> [loaded |-> TRUE, columns |-> Head(file.bytes), rows |-> Tail(file.bytes)]]

\* df[name]: the column's values in row order (KeyError when there is none)
HasColumn(df, name) == \E i \in 1..Len(df.columns) : df.columns[i] = name
ColumnIndex(df, name) == CHOOSE i \in 1..Len(df.columns) :
    df.columns[i] = name /\ \A j \in 1..(i - 1) : df.columns[j] # name
Column(df, name) == [r \in 1..Len(df.rows) |-> df.rows[r][ColumnIndex(df, name)]]

\* line 89
EegChannels(df) == LET NotTime(c) == c # time_col IN SelectSeq(df.columns, NotTime)

\* A lookup that falls back to the channel's own label.
DescribeEcho(ch) == IF ch \in DOMAIN CHANNEL_INFO THEN CHANNEL_INFO[ch] ELSE ch
\* line 98: CHANNEL_INFO.get(ch, "No description available")
Describe(ch) ==
    IF ch \in DOMAIN CHANNEL_INFO THEN CHANNEL_INFO[ch] ELSE "No description available"

\* lines 97-99: one markdown line per selected channel
Descriptions(sel) == [i \in 1..Len(sel) |-> [ch |-> sel[i], desc |-> Describe(sel[i])]]

\* Traces that all plot the table's first column.
TracesFirstColumn(df, sel) ==
    [i \in 1..Len(sel) |->
        [name |-> sel[i], mode |-> "lines", x |-> Column(df, time_col),
         y |-> [r \in 1..Len(df.rows) |-> df.rows[r][1]]]]
\* lines 105-106: one go.Scatter per selected channel
Traces(df, sel) ==
    [i \in 1..Len(sel) |->
        [name |-> sel[i], mode |-> "lines", x |-> Column(df, time_col), y |-> Column(df, sel[i])]]

\* The selections of at most m options a multiselect can return: the options
\* picked in any order, none twice.
Selections(options, m) ==
    UNION { {[i \in 1..n |-> options[p[i]]] :
                p \in {q \in [1..n -> 1..Len(options)] :
                          \A i, j \in 1..n : i # j => q[i] # q[j]}} :
            n \in 0..(IF m < Len(options) THEN m ELSE Len(options)) }
\* line 92: default=eeg_channels[:5]
DefaultChannels(eeg) == SubSeq(eeg, 1, IF Len(eeg) < 5 THEN Len(eeg) ELSE 5)

\* ------------------------------------------------------- electrode overlay
\* lines 125-131, 136
ElectrodeOptions == <<"FP1", "AF3", "AF7", "FZ", "F1">>
electrode_colors ==
    [e \in {"FP1", "AF3", "AF7", "FZ", "F1"} |->
        CASE e = "FP1" -> <<"red">>
          [] e = "AF3" -> <<"blue">>
          [] e = "AF7" -> <<"green">>
          [] e = "FZ"  -> <<"orange">>
          [] e = "F1"  -> <<"purple">>]
\* lines 145-151
electrode_coords ==
    [e \in {"FP1", "AF3", "AF7", "FZ", "F1"} |->
        CASE e = "FP1" -> <<310, 90>>
          [] e = "AF3" -> <<340, 125>>
          [] e = "AF7" -> <<280, 130>>
          [] e = "FZ"  -> <<425, 150>>
          [] e = "F1"  -> <<385, 140>>]
\* line 156: the marker's half-width in pixels
MarkerRadius == 15

\* PIL.ImageColor: the named colours the page uses, and the colour a
\* specifier denotes: a name of the colour map (opaque), "#rrggbbaa" (here as
\* the tokens "#", rrggbb, aa), anything else a ValueError.
ColorNames ==
    [n \in {"red", "blue", "green", "orange", "purple"} |->
        CASE n = "red"    -> <<255, 0, 0>>
          [] n = "blue"   -> <<0, 0, 255>>
          [] n = "green"  -> <<0, 128, 0>>
          [] n = "orange" -> <<255, 165, 0>>
          [] n = "purple" -> <<128, 0, 128>>]
HexRgb ==
    [h \in {"ff0000", "0000ff", "008000", "ffa500", "800080"} |->
        CASE h = "ff0000" -> <<255, 0, 0>>
          [] h = "0000ff" -> <<0, 0, 255>>
          [] h = "008000" -> <<0, 128, 0>>
          [] h = "ffa500" -> <<255, 165, 0>>
          [] h = "800080" -> <<128, 0, 128>>]
HexAlpha == [h \in {"80", "ff"} |-> IF h = "80" THEN 128 ELSE 255]
NoInk == [ok |-> FALSE, rgba |-> <<0, 0, 0, 0>>]
GetRgb(color) ==
    IF Len(color) = 1 /\ color[1] \in DOMAIN ColorNames
    THEN [ok |-> TRUE, rgba |-> ColorNames[color[1]] \o <<255>>]
    ELSE IF Len(color) = 3 /\ color[1] = "#" /\ color[2] \in DOMAIN HexRgb
                /\ color[3] \in DOMAIN HexAlpha
    THEN [ok |-> TRUE, rgba |-> HexRgb[color[2]] \o <<HexAlpha[color[3]]>>]
    ELSE NoInk

\* line 156: fill=electrode_colors[elec] + "80"
FillOf(elec) == electrode_colors[elec] \o <<"80">>

\* The pixels followed: each electrode's coordinate, a pixel inside each
\* marker off its centre, the corner of each marker's bounding box (outside
\* the ellipse) and two pixels far from every marker.
Probes ==
    {electrode_coords[e] : e \in DOMAIN electrode_coords}
        \cup {<<electrode_coords[e][1] + 10, electrode_coords[e][2] - 5>> :
                 e \in DOMAIN electrode_coords}
        \cup {<<electrode_coords[e][1] + MarkerRadius, electrode_coords[e][2] + MarkerRadius>> :
                 e \in DOMAIN electrode_coords}
        \cup {<<0, 0>>, <<849, 654>>}

\* line 140: the brain image converted to RGBA (opaque but for its corners)
BrainImage ==
    [p \in Probes |->
        <<p[1] % 256, p[2] % 256, (p[1] + p[2]) % 256,
          IF p = <<0, 0>> \/ p = <<849, 654>> THEN 0 ELSE 255>>]
\* line 141: Image.new("RGBA", brain_img.size, (255,255,255,0))
BlankOverlay == [p \in Probes |-> <<255, 255, 255, 0>>]

\* line 156: draw.ellipse((x-15, y-15, x+15, y+15), fill=ink): the pixels of
\* the ellipse inscribed in the box take the ink
InEllipse(p, c) ==
    (p[1] - c[1]) * (p[1] - c[1]) + (p[2] - c[2]) * (p[2] - c[2])
        <= MarkerRadius * MarkerRadius
DrawEllipse(img, c, ink) == [p \in Probes |-> IF InEllipse(p, c) THEN ink ELSE img[p]]

\* lines 154-156: the drawing loop; it ends at the first fill ImageColor rejects
RECURSIVE DrawAll(_, _)
DrawAll(img, elecs) ==
    IF elecs = <<>> THEN [ok |-> TRUE, img |-> img]
    ELSE LET ink == GetRgb(FillOf(Head(elecs)))
         IN  IF ~ink.ok THEN [ok |-> FALSE, img |-> img]
             ELSE DrawAll(DrawEllipse(img, electrode_coords[Head(elecs)], ink.rgba), Tail(elecs))

\* line 159: Image.alpha_composite(dst, src), pixel by pixel
CompositePixel(d, s) ==
    IF s[4] = 0 THEN d
    ELSE LET outa == s[4] * 255 + d[4] * (255 - s[4])
             Ch(i) == (s[i] * s[4] * 255 + d[i] * d[4] * (255 - s[4])) \div outa
         IN  <<Ch(1), Ch(2), Ch(3), outa \div 255>>
AlphaComposite(dst, src) == [p \in Probes |-> CompositePixel(dst[p], src[p])]

\* ------------------------------------------------------------------ state
VARIABLES
    dirExists,          \* data/eeg_csv exists
    disk,               \* file name of data/eeg_csv -> [exists, bytes]
    imageExists,        \* the brain image is at its absolute path (line 140)
    pc,                 \* session -> where its run of the script stands
    reruns,             \* session -> reruns of the script so far
    csv_files,          \* line 46
    selected_subj, selected_cond, selected_task,     \* lines 56-58
    filename, file_path,                             \* lines 67-68, 82
    remoteReqs,         \* session -> hf_hub_download calls of this run
    requested,          \* session -> the objects those calls asked for
    copied,             \* session -> lines written so far by a copying download
    df,                 \* line 87
    selected_channels,  \* line 91
    descs,              \* lines 97-99: the description lines shown
    chart,              \* lines 104-114: [shown, traces]
    selected_electrodes,\* line 134
    combined,           \* line 159: [shown, img]
    msgs,               \* session -> st.warning / st.error / st.info / st.markdown notices
    exc,                \* session -> the exception that ended the run and its line
    controls,           \* session -> the input widgets rendered in this run
    \* history, for stating the properties
    existedAtCheck,     \* session -> what os.path.exists answered (line 72)
    populatedAtCheck,   \* session -> a download had written the file before that check
    fetchOutcome,       \* session -> "none" | "failed" | "written"
    readResult,         \* session -> what pd.read_csv gave this run
    prevResult,         \* session -> what the previous read of the same file gave
    lastResult,         \* file name -> what the last read of it gave
    populated,          \* file names a completed download has written
    everExisted         \* file names that have existed in data/eeg_csv

fsVars == <<dirExists, disk, imageExists>>
selVars == <<csv_files, selected_subj, selected_cond, selected_task, filename>>
fetchVars == <<file_path, remoteReqs, requested, copied, existedAtCheck, populatedAtCheck,
               fetchOutcome>>
loadVars == <<df, readResult, prevResult, lastResult>>
viewVars == <<selected_channels, descs, chart, selected_electrodes, combined>>
vars == <<dirExists, disk, imageExists, pc, reruns, csv_files, selected_subj, selected_cond,
          selected_task, filename, file_path, remoteReqs, requested, copied, df,
          selected_channels, descs, chart, selected_electrodes, combined, msgs, exc,
          controls, existedAtCheck, populatedAtCheck, fetchOutcome, readResult, prevResult,
          lastResult, populated, everExisted>>

NoResult == [err |-> "unset", df |-> NoDf]
NoExc == [name |-> "none", line |-> 0]
NoChart == [shown |-> FALSE, traces |-> <<>>]
NoImage == [shown |-> FALSE, img |-> <<>>]
Notice(kind, text, file, cause) == [kind |-> kind, text |-> text, file |-> file, cause |-> cause]

Existing(d) == {f \in FileNames : d[f].exists}

\* The state in which a run of the script starts.
InitWith(active, dirs) ==
    /\ dirExists \in BOOLEAN
    /\ disk \in dirs
    /\ (~dirExists => disk = DirWith(<<>>))
    /\ imageExists \in BOOLEAN
    /\ pc = [s \in Sessions |-> IF s \in active THEN "start" ELSE "off"]
    /\ reruns = [s \in Sessions |-> 0]
    /\ csv_files = [s \in Sessions |-> {}]
    /\ selected_subj = [s \in Sessions |-> <<>>]
    /\ selected_cond = [s \in Sessions |-> ""]
    /\ selected_task = [s \in Sessions |-> ""]
    /\ filename = [s \in Sessions |-> <<>>]
    /\ file_path = [s \in Sessions |-> <<>>]
    /\ remoteReqs = [s \in Sessions |-> 0]
    /\ requested = [s \in Sessions |-> <<>>]
    /\ copied = [s \in Sessions |-> 0]
    /\ df = [s \in Sessions |-> NoDf]
    /\ selected_channels = [s \in Sessions |-> <<>>]
    /\ descs = [s \in Sessions |-> <<>>]
    /\ chart = [s \in Sessions |-> NoChart]
    /\ selected_electrodes = [s \in Sessions |-> <<>>]
    /\ combined = [s \in Sessions |-> NoImage]
    /\ msgs = [s \in Sessions |-> <<>>]
    /\ exc = [s \in Sessions |-> NoExc]
    /\ controls = [s \in Sessions |-> {}]
    /\ existedAtCheck = [s \in Sessions |-> FALSE]
    /\ populatedAtCheck = [s \in Sessions |-> FALSE]
    /\ fetchOutcome = [s \in Sessions |-> "none"]
    /\ readResult = [s \in Sessions |-> NoResult]
    /\ prevResult = [s \in Sessions |-> NoResult]
    /\ lastResult = [f \in FileNames |-> NoResult]
    /\ populated = {}
    /\ everExisted = Existing(disk)

\* One session at a time (a single user).
Init == InitWith({1}, InitialDirs)
\* Two sessions of the same server process, sharing data/eeg_csv.
InitConc ==
    InitWith(Sessions, {DirWith(<<>>), DirWith(F01NsOpen :> RemoteBytes(F01NsOpen))})

\* ---------------------------------------------------------------- actions
\* An exception nothing catches ends the run (Streamlit shows the traceback).
Raise(s, name, line) ==
    /\ exc' = [exc EXCEPT ![s] = [name |-> name, line |-> line]]
    /\ pc' = [pc EXCEPT ![s] = "crashed"]

\* st.stop()
Stop(s) == pc' = [pc EXCEPT ![s] = "stopped"]

\* A filter that lets every listed file through.
IsCsvAny(f) == TRUE
\* line 46: f.endswith(".csv")
IsCsv(f) == EndsWith(f, ".csv")

\* lines 46-50: list the directory; stop with a warning when it has no CSV
ListDir(s) ==
    /\ pc[s] = "start"
    /\ IF ~dirExists
       THEN Raise(s, "FileNotFoundError", 46) /\ UNCHANGED <<csv_files, msgs>>
       ELSE LET listed == {f \in Existing(disk) : IsCsv(f)}
            IN  /\ csv_files' = [csv_files EXCEPT ![s] = listed]
                /\ IF listed = {}
                   THEN /\ msgs' = [msgs EXCEPT ![s] = Append(@,
                                Notice("warning", "No EEG CSV files found in data/eeg_csv/.",
                                       <<>>, ""))]
                        /\ Stop(s)
                        /\ UNCHANGED exc
                   ELSE /\ pc' = [pc EXCEPT ![s] = "select"]
                        /\ UNCHANGED <<msgs, exc>>
    /\ UNCHANGED <<fsVars, reruns, selected_subj, selected_cond, selected_task, filename,
                   fetchVars, loadVars, viewVars, controls, populated, everExisted>>

\* lines 53-68: the three pickers and the file name built from their values
Select(s) ==
    /\ pc[s] = "select"
    /\ \E sj \in SubjectIds(csv_files[s]), c \in Conditions, t \in Tasks :
          /\ selected_subj' = [selected_subj EXCEPT ![s] = sj]
          /\ selected_cond' = [selected_cond EXCEPT ![s] = c]
          /\ selected_task' = [selected_task EXCEPT ![s] = t]
          /\ filename' = [filename EXCEPT ![s] = MakeFilename(sj, c, t)]
          /\ file_path' = [file_path EXCEPT ![s] = PathJoin(DATA_DIR, MakeFilename(sj, c, t))]
    /\ controls' = [controls EXCEPT ![s] = @ \cup {"subject", "condition", "task"}]
    /\ pc' = [pc EXCEPT ![s] = "exists"]
    /\ UNCHANGED <<fsVars, reruns, csv_files, remoteReqs, requested, copied, existedAtCheck,
                   populatedAtCheck, fetchOutcome, loadVars, viewVars, msgs, exc, populated,
                   everExisted>>

\* The file a path names (only data/eeg_csv is followed)
FileAt(path) ==
    IF InDataDir(path) /\ NameOf(path) \in FileNames THEN disk[NameOf(path)] ELSE NoFile

\* A check that never finds the file.
PathExistsNever(path) == FALSE
\* line 72: os.path.exists(file_path)
PathExists(path) == FileAt(path).exists

\* line 72
CheckExists(s) ==
    /\ pc[s] = "exists"
    /\ existedAtCheck' = [existedAtCheck EXCEPT ![s] = PathExists(file_path[s])]
    /\ populatedAtCheck' = [populatedAtCheck EXCEPT ![s] = filename[s] \in populated]
    /\ pc' = [pc EXCEPT ![s] = IF PathExists(file_path[s]) THEN "read" ELSE "download"]
    /\ UNCHANGED <<fsVars, reruns, selVars, file_path, remoteReqs, requested, copied,
                   fetchOutcome, loadVars, viewVars, msgs, exc, controls, populated,
                   everExisted>>

\* lines 75-81: what hf_hub_download(local_dir=DATA_DIR) can raise, and where
\* it puts the file
FailureCauses(name) ==
    IF name \in RemoteNames THEN {"ConnectionError"}
    ELSE {"EntryNotFoundError", "ConnectionError"}
DownloadPath(name) == PathJoin(DATA_DIR, name)

\* An except branch that reports the error and goes on to read the file.
FetchFailedNoStop(s, cause) ==
    /\ msgs' = [msgs EXCEPT ![s] = Append(@,
            Notice("error", "Failed to retrieve from Hugging Face", filename[s], cause))]
    /\ fetchOutcome' = [fetchOutcome EXCEPT ![s] = "failed"]
    /\ pc' = [pc EXCEPT ![s] = "read"]
\* An except branch that tries the download once more.
FetchFailedRetry(s, cause) ==
    /\ msgs' = [msgs EXCEPT ![s] = Append(@,
            Notice("error", "Failed to retrieve from Hugging Face", filename[s], cause))]
    /\ fetchOutcome' = [fetchOutcome EXCEPT ![s] = "failed"]
    /\ pc' = [pc EXCEPT ![s] = IF remoteReqs[s] < 2 THEN "download" ELSE "stopped"]
\* lines 83-85: the except branch: st.error, st.stop
FetchFailed(s, cause) ==
    /\ msgs' = [msgs EXCEPT ![s] = Append(@,
            Notice("error", "Failed to retrieve from Hugging Face", filename[s], cause))]
    /\ fetchOutcome' = [fetchOutcome EXCEPT ![s] = "failed"]
    /\ Stop(s)

\* The file after one line is written at position k (a writer that opened it
\* before another truncated it leaves a hole below its position).
WriteAt(bytes, k, line) ==
    [i \in 1..(IF Len(bytes) < k THEN k ELSE Len(bytes)) |->
        IF i = k THEN line ELSE IF i <= Len(bytes) THEN bytes[i] ELSE Hole]

\* lines 72-85: the download.  It fails, or it puts the object at
\* DownloadPath: by a rename of a finished temporary file, or by a copy that
\* creates the file empty and then fills it (CopyStep).  Which of the two the
\* library does depends on its version and on where its cache lies.
Download(s) ==
    /\ pc[s] = "download"
    /\ remoteReqs' = [remoteReqs EXCEPT ![s] = @ + 1]
    /\ requested' = [requested EXCEPT ![s] =
                        Append(@, [repo_id |-> HF_REPO, filename |-> filename[s]])]
    /\ \/ /\ \E cause \in FailureCauses(filename[s]) : FetchFailed(s, cause)
          /\ UNCHANGED <<disk, file_path, copied, populated, everExisted>>
       \/ /\ filename[s] \in RemoteNames
          /\ disk' = [disk EXCEPT ![NameOf(DownloadPath(filename[s]))] =
                         FileOf(RemoteBytes(filename[s]))]
          /\ file_path' = [file_path EXCEPT ![s] = DownloadPath(filename[s])]
          /\ fetchOutcome' = [fetchOutcome EXCEPT ![s] = "written"]
          /\ populated' = populated \cup {filename[s]}
          /\ everExisted' = everExisted \cup {filename[s]}
          /\ pc' = [pc EXCEPT ![s] = "read"]
          /\ UNCHANGED <<copied, msgs>>
       \/ /\ filename[s] \in RemoteNames
          /\ disk' = [disk EXCEPT ![NameOf(DownloadPath(filename[s]))] = FileOf(<<>>)]
          /\ copied' = [copied EXCEPT ![s] = 0]
          /\ everExisted' = everExisted \cup {filename[s]}
          /\ pc' = [pc EXCEPT ![s] = "copy"]
          /\ UNCHANGED <<file_path, fetchOutcome, populated, msgs>>
    /\ UNCHANGED <<dirExists, imageExists, reruns, selVars, existedAtCheck, populatedAtCheck,
                   loadVars, viewVars, exc, controls>>

\* The copying download writes its next line; after the last one
\* hf_hub_download returns the path (line 82).
CopyStep(s) ==
    /\ pc[s] = "copy"
    /\ LET name == NameOf(DownloadPath(filename[s]))
           k == copied[s] + 1
           done == k = Len(RemoteBytes(filename[s]))
       IN  /\ disk' = [disk EXCEPT ![name] =
                          FileOf(WriteAt(disk[name].bytes, k, RemoteBytes(filename[s])[k]))]
           /\ copied' = [copied EXCEPT ![s] = k]
           /\ pc' = [pc EXCEPT ![s] = IF done THEN "read" ELSE "copy"]
           /\ file_path' = [file_path EXCEPT ![s] =
                               IF done THEN DownloadPath(filename[s]) ELSE @]
           /\ fetchOutcome' = [fetchOutcome EXCEPT ![s] = IF done THEN "written" ELSE @]
           /\ populated' = IF done THEN populated \cup {filename[s]} ELSE populated
    /\ UNCHANGED <<dirExists, imageExists, reruns, selVars, remoteReqs, requested,
                   existedAtCheck, populatedAtCheck, loadVars, viewVars, msgs, exc, controls,
                   everExisted>>

\* line 87: df = pd.read_csv(file_path); nothing catches what it raises
ReadTable(s) ==
    /\ pc[s] = "read"
    /\ LET res == ReadCsv(FileAt(file_path[s]))
       IN  /\ readResult' = [readResult EXCEPT ![s] = res]
           /\ prevResult' = [prevResult EXCEPT ![s] = lastResult[filename[s]]]
           /\ lastResult' = [lastResult EXCEPT ![filename[s]] = res]
           /\ df' = [df EXCEPT ![s] = res.df]
           /\ IF res.err # "none"
              THEN Raise(s, res.err, 87)
              ELSE pc' = [pc EXCEPT ![s] = "render"] /\ UNCHANGED exc
    /\ UNCHANGED <<fsVars, reruns, selVars, fetchVars, viewVars, msgs, controls, populated,
                   everExisted>>

\* line 91: what the channel picker can return
ChannelChoices(table, wide) ==
    IF wide THEN Selections(EegChannels(table), Len(EegChannels(table)))
    ELSE {DefaultChannels(EegChannels(table))}

\* lines 89-116: the channel picker, the descriptions and the chart
Render(s, wide) ==
    /\ pc[s] = "render"
    /\ \E sel \in ChannelChoices(df[s], wide) :
          /\ selected_channels' = [selected_channels EXCEPT ![s] = sel]
          /\ descs' = [descs EXCEPT ![s] = Descriptions(sel)]
          /\ IF sel = <<>>
             THEN /\ msgs' = [msgs EXCEPT ![s] = @ \o
                        << Notice("markdown", "Select a channel above to see its meaning.", <<>>, ""),
                           Notice("info", "No EEG channels selected.", <<>>, "") >>]
                  /\ pc' = [pc EXCEPT ![s] = "overlay"]
                  /\ UNCHANGED <<chart, exc>>
             ELSE IF ~HasColumn(df[s], time_col)
             THEN Raise(s, "KeyError", 106) /\ UNCHANGED <<chart, msgs>>
             ELSE /\ chart' = [chart EXCEPT ![s] = [shown |-> TRUE, traces |-> Traces(df[s], sel)]]
                  /\ pc' = [pc EXCEPT ![s] = "overlay"]
                  /\ UNCHANGED <<msgs, exc>>
    /\ controls' = [controls EXCEPT ![s] = @ \cup {"channels"}]
    /\ UNCHANGED <<fsVars, reruns, selVars, fetchVars, loadVars, selected_electrodes, combined,
                   populated, everExisted>>

\* line 134: what the electrode picker can return
WideElectrodeChoices == Selections(ElectrodeOptions, MaxPicked) \cup {ElectrodeOptions}
ElectrodeChoices(wide) == IF wide THEN WideElectrodeChoices ELSE {<<>>}

\* lines 134-162: the electrode picker and the annotated brain image
Overlay(s, wide) ==
    /\ pc[s] = "overlay"
    /\ \E sel \in ElectrodeChoices(wide) :
          /\ selected_electrodes' = [selected_electrodes EXCEPT ![s] = sel]
          /\ IF ~imageExists
             THEN Raise(s, "FileNotFoundError", 140) /\ UNCHANGED combined
             ELSE LET drawn == DrawAll(BlankOverlay, sel)
                  IN  IF ~drawn.ok
                      THEN Raise(s, "ValueError", 156) /\ UNCHANGED combined
                      ELSE /\ combined' = [combined EXCEPT ![s] =
                                  [shown |-> TRUE, img |-> AlphaComposite(BrainImage, drawn.img)]]
                           /\ pc' = [pc EXCEPT ![s] = "done"]
                           /\ UNCHANGED exc
    /\ controls' = [controls EXCEPT ![s] = @ \cup {"electrodes"}]
    /\ UNCHANGED <<fsVars, reruns, selVars, fetchVars, loadVars, selected_channels, descs, chart,
                   msgs, populated, everExisted>>

Ended(s) == pc[s] \in {"done", "stopped", "crashed"}

\* The next interaction: Streamlit runs the script again from its first line.
Rerun(s) ==
    /\ Ended(s)
    /\ reruns[1] + reruns[2] < MaxReruns
    /\ reruns' = [reruns EXCEPT ![s] = @ + 1]
    /\ pc' = [pc EXCEPT ![s] = "start"]
    /\ csv_files' = [csv_files EXCEPT ![s] = {}]
    /\ selected_subj' = [selected_subj EXCEPT ![s] = <<>>]
    /\ selected_cond' = [selected_cond EXCEPT ![s] = ""]
    /\ selected_task' = [selected_task EXCEPT ![s] = ""]
    /\ filename' = [filename EXCEPT ![s] = <<>>]
    /\ file_path' = [file_path EXCEPT ![s] = <<>>]
    /\ remoteReqs' = [remoteReqs EXCEPT ![s] = 0]
    /\ requested' = [requested EXCEPT ![s] = <<>>]
    /\ copied' = [copied EXCEPT ![s] = 0]
    /\ df' = [df EXCEPT ![s] = NoDf]
    /\ selected_channels' = [selected_channels EXCEPT ![s] = <<>>]
    /\ descs' = [descs EXCEPT ![s] = <<>>]
    /\ chart' = [chart EXCEPT ![s] = NoChart]
    /\ selected_electrodes' = [selected_electrodes EXCEPT ![s] = <<>>]
    /\ combined' = [combined EXCEPT ![s] = NoImage]
    /\ msgs' = [msgs EXCEPT ![s] = <<>>]
    /\ exc' = [exc EXCEPT ![s] = NoExc]
    /\ controls' = [controls EXCEPT ![s] = {}]
    /\ existedAtCheck' = [existedAtCheck EXCEPT ![s] = FALSE]
    /\ populatedAtCheck' = [populatedAtCheck EXCEPT ![s] = FALSE]
    /\ fetchOutcome' = [fetchOutcome EXCEPT ![s] = "none"]
    /\ readResult' = [readResult EXCEPT ![s] = NoResult]
    /\ prevResult' = [prevResult EXCEPT ![s] = NoResult]
    /\ UNCHANGED <<fsVars, lastResult, populated, everExisted>>

Next ==
    \E s \in Sessions :
        \/ ListDir(s)
        \/ Select(s)
        \/ CheckExists(s)
        \/ Download(s)
        \/ CopyStep(s)
        \/ ReadTable(s)
        \/ Render(s, TRUE)
        \/ Overlay(s, TRUE)
        \/ Rerun(s)

\* Two sessions: the pickers of the chart and of the overlay stay at their
\* defaults, the rest is as in Next.
NextConc ==
    \E s \in Sessions :
        \/ ListDir(s)
        \/ Select(s)
        \/ CheckExists(s)
        \/ Download(s)
        \/ CopyStep(s)
        \/ ReadTable(s)
        \/ Render(s, FALSE)
        \/ Overlay(s, FALSE)
        \/ Rerun(s)

Spec == Init /\ [][Next]_vars
SpecConc == InitConc /\ [][NextConc]_vars

\* ================================================================ properties
Resolved(s) == filename[s] # <<>>
PastCheck(s) == Resolved(s) /\ pc[s] # "exists"
\* The lines of a file of the data directory, as they are on disk.
BytesOnDisk(f) == disk[f].bytes
CsvOnDisk == {f \in Existing(disk) : Len(f) > 0 /\ f[Len(f)] = ".csv"}

\* C1: every resolved dataset key is sub-{subject}_{ses}_{task} for the subject
\* picked among the offered ids, with Normal Sleep -> ses-1, Sleep Deprived ->
\* ses-2, Eyes Open -> eyesopen, Eyes Closed -> eyesclosed, and the file asked
\* for is that key with ".csv" appended; no other code appears.
C1_KeyPattern ==
    \A s \in Sessions : Resolved(s) =>
        LET ses == IF selected_cond[s] = "Normal Sleep (NS)" THEN "ses-1" ELSE "ses-2"
            tsk == IF selected_task[s] = "Eyes Open" THEN "eyesopen" ELSE "eyesclosed"
            key == SubSeq(filename[s], 1, Len(filename[s]) - 1)
        IN  /\ selected_subj[s] \in SubjectIds(csv_files[s])
            /\ selected_cond[s] \in {"Normal Sleep (NS)", "Sleep Deprived (SD)"}
            /\ selected_task[s] \in {"Eyes Open", "Eyes Closed"}
            /\ key = <<"sub-">> \o selected_subj[s] \o <<"_", ses, "_", tsk>>
            /\ filename[s] = key \o <<".csv">>
            /\ key[Len(key) - 2] \in {"ses-1", "ses-2"}
            /\ key[Len(key)] \in {"eyesopen", "eyesclosed"}

C1_Witness ==
    \E s \in Sessions :
        /\ selected_subj[s] = <<"01">>
        /\ selected_cond[s] = "Sleep Deprived (SD)"
        /\ selected_task[s] = "Eyes Closed"
        /\ filename[s] = <<"sub-", "01", "_", "ses-2", "_", "eyesclosed", ".csv">>

\* C2: two successive requests for the same key get the same table, and a
\* request made after a download has written the key's file finds the file at
\* its local path and makes no remote request.
C2_FetchIdempotent ==
    \A s \in Sessions :
        /\ (readResult[s].err # "unset" /\ prevResult[s].err # "unset")
              => readResult[s] = prevResult[s]
        /\ (PastCheck(s) /\ populatedAtCheck[s])
              => existedAtCheck[s] /\ remoteReqs[s] = 0 /\ requested[s] = <<>>

C2_Witness ==
    \E s \in Sessions :
        /\ populatedAtCheck[s]
        /\ remoteReqs[s] = 0
        /\ prevResult[s].err = "none"
        /\ readResult[s].err = "none"
        /\ readResult[s].df.rows = Tail(RemoteBytes(filename[s]))

\* C3: a request whose file was absent and whose remote fetch failed ends
\* stopped with one error naming the file and the cause; it loads no table and
\* renders no channel picker, description, chart or electrode overlay.
C3_DatasetUnavailable ==
    \A s \in Sessions : fetchOutcome[s] = "failed" =>
        /\ ~existedAtCheck[s]
        /\ pc[s] = "stopped"
        /\ exc[s] = NoExc
        /\ Len(msgs[s]) = 1
        /\ msgs[s][1].kind = "error"
        /\ msgs[s][1].file = filename[s]
        /\ msgs[s][1].cause \in {"EntryNotFoundError", "ConnectionError"}
        /\ (filename[s] \notin RemoteNames \/ msgs[s][1].cause = "ConnectionError")
        /\ df[s] = NoDf
        /\ readResult[s] = NoResult
        /\ descs[s] = <<>>
        /\ ~chart[s].shown
        /\ ~combined[s].shown
        /\ controls[s] \cap {"channels", "electrodes"} = {}

C3_Witness ==
    \E s \in Sessions :
        /\ fetchOutcome[s] = "failed"
        /\ pc[s] = "stopped"
        /\ msgs[s][1].cause = "EntryNotFoundError"
        /\ ~disk[filename[s]].exists

\* C4: no failure of listing the directory (line 46), of the download, of
\* reading the CSV (line 87) or of looking up the Time column (line 106)
\* escapes as an unhandled exception.
C4_AllFailuresCaught ==
    \A s \in Sessions : exc[s].line \notin {46, 87, 106}

\* C5: when the data directory has been listed and holds no CSV file, the run
\* stops with one warning; no picker is offered, no key is resolved, no remote
\* request is made and nothing is loaded or rendered.
C5_NoDatasetsFound ==
    \A s \in Sessions :
        (pc[s] \notin {"off", "start"} /\ dirExists /\ CsvOnDisk = {}) =>
            /\ pc[s] = "stopped"
            /\ Len(msgs[s]) = 1
            /\ msgs[s][1].kind = "warning"
            /\ controls[s] = {}
            /\ selected_subj[s] = <<>>
            /\ ~Resolved(s)
            /\ remoteReqs[s] = 0
            /\ df[s] = NoDf
            /\ descs[s] = <<>>
            /\ ~chart[s].shown
            /\ ~combined[s].shown

C5_Witness ==
    \E s \in Sessions :
        /\ pc[s] = "stopped"
        /\ disk[NotesTxt].exists
        /\ CsvOnDisk = {}
        /\ msgs[s][1].kind = "warning"

\* The position of a column in the header line of a file on disk.
HeaderHas(f, name) == \E k \in 1..Len(BytesOnDisk(f)[1]) : BytesOnDisk(f)[1][k] = name
HeaderPos(f, name) == CHOOSE k \in 1..Len(BytesOnDisk(f)[1]) : BytesOnDisk(f)[1][k] = name
RenderActed(s) == "channels" \in controls[s]

\* C6: once the channel picker has been answered for a table with a Time
\* column: an empty selection gives the notice "No EEG channels selected." and
\* no chart; a selection gives one trace per selected channel, in the order
\* selected, whose y values are that column's cells of the file in file order
\* and whose x values are the Time column's.
C6_Render ==
    \A s \in Sessions :
        (RenderActed(s) /\ HeaderHas(filename[s], "Time")) =>
            LET f == filename[s]
                sel == selected_channels[s]
                nrows == Len(BytesOnDisk(f)) - 1
            IN  IF sel = <<>>
                THEN /\ ~chart[s].shown
                     /\ \E i \in 1..Len(msgs[s]) :
                           msgs[s][i].kind = "info" /\ msgs[s][i].text = "No EEG channels selected."
                ELSE /\ chart[s].shown
                     /\ Len(chart[s].traces) = Len(sel)
                     /\ \A i \in 1..Len(sel) :
                           /\ sel[i] # "Time" /\ HeaderHas(f, sel[i])
                           /\ chart[s].traces[i].name = sel[i]
                           /\ chart[s].traces[i].y =
                                 [r \in 1..nrows |-> BytesOnDisk(f)[r + 1][HeaderPos(f, sel[i])]]
                           /\ chart[s].traces[i].x =
                                 [r \in 1..nrows |-> BytesOnDisk(f)[r + 1][HeaderPos(f, "Time")]]

C6_Witness ==
    \E s \in Sessions :
        /\ selected_channels[s] = <<"Fz">>
        /\ chart[s].shown
        /\ Len(chart[s].traces) = 1
        /\ Len(chart[s].traces[1].y) = NumRows
        /\ chart[s].traces[1].y # chart[s].traces[1].x

\* What C7 says, for a given fallback text: the description lines are those of
\* the selected channels, each the catalogue's text for a catalogued channel
\* (Fp1: "Frontopolar left (near forehead)") and the fallback otherwise; the
\* description raises nothing and an uncatalogued channel is plotted all the same.
DescribeClaim(fallback) ==
    \A s \in Sessions : RenderActed(s) =>
        /\ Len(descs[s]) = Len(selected_channels[s])
        /\ exc[s].line \notin {97, 98, 99}
        /\ \A i \in 1..Len(descs[s]) :
              LET ch == descs[s][i].ch
              IN  /\ ch = selected_channels[s][i]
                  /\ (ch \in DOMAIN CHANNEL_INFO => descs[s][i].desc = CHANNEL_INFO[ch])
                  /\ (ch = "Fp1" => descs[s][i].desc = "Frontopolar left (near forehead)")
                  /\ (ch \notin DOMAIN CHANNEL_INFO => descs[s][i].desc = fallback)
                  /\ (HeaderHas(filename[s], "Time") =>
                         chart[s].shown /\ chart[s].traces[i].name = ch)

\* C7 (as claimed): the fallback is the string "no description available".
C7_DescribeOriginal == DescribeClaim("no description available")

\* C7 (amended): the fallback is the string "No description available".
C7_Describe == DescribeClaim("No description available")

C7_Witness ==
    \E s \in Sessions :
        /\ selected_channels[s] = <<"X1", "Fp1">>
        /\ descs[s][1] = [ch |-> "X1", desc |-> "No description available"]
        /\ descs[s][2] = [ch |-> "Fp1", desc |-> "Frontopolar left (near forehead)"]
        /\ chart[s].shown
        /\ chart[s].traces[1].name = "X1"

\* C8: once the electrode picker has been answered and the brain image is in
\* place, the annotated image is shown; with no electrode selected it equals
\* the brain image; each selected electrode's coordinate has changed, each
\* unselected electrode's coordinate and every pixel outside the drawn markers
\* has the brain image's pixel.
C8_Annotate ==
    \A s \in Sessions :
        ("electrodes" \in controls[s] /\ imageExists) =>
            LET sel == {selected_electrodes[s][i] : i \in 1..Len(selected_electrodes[s])}
                img == combined[s].img
            IN  /\ combined[s].shown
                /\ exc[s] = NoExc
                /\ DOMAIN img = DOMAIN BrainImage
                /\ (sel = {} => img = BrainImage)
                /\ \A e \in DOMAIN electrode_coords :
                      IF e \in sel
                      THEN img[electrode_coords[e]] # BrainImage[electrode_coords[e]]
                      ELSE img[electrode_coords[e]] = BrainImage[electrode_coords[e]]
                /\ \A p \in Probes :
                      (\A e \in sel : ~InEllipse(p, electrode_coords[e]))
                          => img[p] = BrainImage[p]

\* C9: in one request: a file found locally is read as it is and nothing is
\* asked of the store; a file not found is asked of the store exactly once, by
\* its own name; a fetch that succeeded has put the file in the data directory
\* before it is read; a fetch that failed is not repeated.
C9_LocalFirstOnce ==
    \A s \in Sessions : PastCheck(s) =>
        /\ remoteReqs[s] <= 1
        /\ Len(requested[s]) = remoteReqs[s]
        /\ (existedAtCheck[s] => remoteReqs[s] = 0 /\ fetchOutcome[s] = "none")
        /\ ((~existedAtCheck[s] /\ pc[s] # "download") =>
               /\ remoteReqs[s] = 1
               /\ requested[s] = <<[repo_id |-> HF_REPO, filename |-> filename[s]]>>)
        /\ (fetchOutcome[s] = "failed" => pc[s] = "stopped" /\ readResult[s] = NoResult)
        /\ (fetchOutcome[s] = "written" =>
               /\ file_path[s] = DATA_DIR \o <<"/">> \o filename[s]
               /\ disk[filename[s]] = FileOf(RemoteBytes(filename[s])))
        /\ (readResult[s].err # "unset" =>
               /\ existedAtCheck[s] \/ fetchOutcome[s] = "written"
               /\ readResult[s] = ReadCsv(disk[filename[s]]))

C9_Witness ==
    \E s \in Sessions :
        /\ ~existedAtCheck[s]
        /\ remoteReqs[s] = 1
        /\ fetchOutcome[s] = "written"
        /\ df[s].loaded
        /\ df[s].rows = Tail(RemoteBytes(filename[s]))

\* C10: with two sessions at once: every table a request reads is the key's
\* complete table (a request ends otherwise only by a failed fetch); no file
\* a download has finished writing is found incomplete once no download is
\* writing it; and no file of the data directory ever disappears.
C10_ConcurrentSafe ==
    /\ \A s \in Sessions :
          (readResult[s].err # "unset" /\ filename[s] \in RemoteNames) =>
              readResult[s] = ReadCsv(FileOf(RemoteBytes(filename[s])))
    /\ \A s \in Sessions : Resolved(s) => exc[s].line # 87
    /\ \A f \in populated :
          (\A s \in Sessions : ~(pc[s] = "copy" /\ filename[s] = f))
              => disk[f] = FileOf(RemoteBytes(f))
    /\ everExisted \subseteq Existing(disk)

====
